---------------------------- MODULE Spec2Model ----------------------------
(***************************************************************************)
(* Model of the note <-> remote document synchronisation scripts:         *)
(*   - the binding store           (lib/mapping.js, src/unnamed/part_008)  *)
(*   - the push scripts            (pullPush, pullPushByNote,              *)
(*                                  replaceTabBody)                        *)
(*   - the change poller           (scripts/changesPoller.js)              *)
(*   - the markdown parser and tab writers (mdToDocs, formatExplicit)      *)
(* The remote document service and the change feed are the environment:   *)
(* they are modelled by what the scripts read from and send to them.      *)
(***************************************************************************)
EXTENDS Integers, Sequences, FiniteSets, TLC

(***************************************************************************)
(* Bounds and small input sets                                             *)
(***************************************************************************)
\* cap on the revision counter of a remote document (number of edits)
MaxRev == 4

Docs == {"d1", "d2"}
NoteIds == {"n1", "n2"}
\* tab ids a script can be asked for; "t3" exists in no document
TabIds == {"t1", "t2", "t3"}

NL == "\n"
\* texts of local files, as sequences of characters
Texts == { <<"a">>, <<"b", NL>>, <<"a", "b">> }
\* texts another writer leaves in a tab (before the final terminator)
RemoteTexts == Texts \cup { <<>> }

\* length cap of the change feed
MaxFeed == 3
\* number of changes the feed returns in one page
PageSize == 2
\* cap on the number of bindNote runs
MaxBinds == 1

\* absent values
NoToken == 0
NoFile == <<"no file">>
NoRev == 0
NoTab == <<>>
NoTabId == "none"
\* no --interval argument, no sleep yet
NoArg == <<"no arg">>
NoSleep == 0

(***************************************************************************)
(* State                                                                   *)
(***************************************************************************)
VARIABLES
    docs,        \* remote documents: docs[d] = [rev, tabs], tabs[t] = the body of tab t
    notes,       \* mapping.json "notes": sequence of records in key insertion order
    pc,          \* position of the running push script
    script,      \* which push script runs
    pNote,       \* argv: noteId (pullPushByNote)
    pDoc,        \* documentId the script works on
    pTab,        \* tabId the script works on
    pText,       \* content of the local file given to the script
    revisionId,  \* meta.data.revisionId read by the script's documents.get
    requests,    \* the request list built for batchUpdate
    exitCode,    \* process exit code of the finished script, -1 while running
    resp,        \* answer of the remote service to the script's batchUpdate
    pushedRev,   \* revision the remote document took by the script's batchUpdate
    lastPush,    \* history: target and text of the last successful push, reset
                 \* by a remote edit of another writer
    feed,        \* the remote change feed: sequence of [fileId, removed]
    stToken,     \* changes.state.json: the stored pageToken, NoToken when absent
    shadow,      \* local/<noteId>.md: the shadow text of each note, NoFile when absent
    watch,       \* the poller runs with --watch
    ppc,         \* position of the poller process
    pageToken,   \* processOnce: the local pageToken
    page,        \* processOnce: the changes of the listed page not yet processed
    pagePos,     \* feed position of the first change of page
    nextPageToken,      \* data.nextPageToken of the listed page, NoToken when absent
    newStartPageToken,  \* data.newStartPageToken of the listed page, NoToken when absent
    c0,          \* history: the feed's start token when the cursor was initialised
    tickStart,   \* history: the stored cursor when the running tick began
    saves,       \* history: saveState calls of the running tick
    lastPull,    \* history: note, fetched revision and feed position of the pull
                 \* done for the change processed last, NoPull if it did none
    lastError,   \* history: the remote call that failed in the running tick
    lost,        \* history: notes marked accessLost and not bound again since
    binds,       \* history: number of bindNote runs
    plog,        \* console line of the poller for the change processed last
    intervalArg, \* argv: the text after "--interval=", NoArg when not given
    slept,       \* history: delay in ms of the timer of the last sleep, NoSleep if none
    notebooks,   \* mapping.json "notebooks": sequence of records in key order
    form,        \* shape of mapping.json on disk: "namespaced", "flat" or "missing"
    mem,         \* per process: the map returned by its loadMapping call
    spc,         \* per process: position inside its store operation
    sop,         \* per process: the store operation it runs, with its arguments
    ret,         \* per process: value returned by its last store operation
    expect,      \* history: the store if every completed operation had run alone
    ran,         \* history: processes that have called a store operation
    nops,        \* history: number of store operations called
    md,          \* mdToDocs: content of the markdown file
    ir,          \* the remote body the markdown was serialized from, NoTab if none
    cfg,         \* config/md-mapping.json: [useTitle, subtitleItalic]
    mpc,         \* position of the mdToDocs script
    mdLines,     \* mdToDocs: lines
    lineNo,      \* mdToDocs: index of the next line, from 1
    inFence,     \* mdToDocs: inFence
    plain,       \* mdToDocs: plain, the projected buffer
    cursor,      \* mdToDocs: cursor
    paraRanges,  \* mdToDocs: paraRanges, each with the line it was emitted for
    textRanges   \* mdToDocs: textRanges, each with the span it was recorded for

pushVars == <<pc, script, pNote, pDoc, pTab, pText, revisionId, requests,
              exitCode, resp, pushedRev, lastPush>>
pollVars == <<feed, stToken, shadow, watch, ppc, pageToken, page, pagePos,
              nextPageToken, newStartPageToken, c0, tickStart, saves, lastPull,
              lastError, lost, binds, plog, intervalArg, slept>>
storeVars == <<notebooks, form, mem, spc, sop, ret, expect, ran, nops>>
mdVars == <<md, ir, cfg, mpc, mdLines, lineNo, inFence, plain, cursor, paraRanges, textRanges>>
libVars == <<storeVars, mdVars>>
vars == <<docs, notes, pushVars, pollVars, libVars>>

(***************************************************************************)
(* Binding store (mapping.json)                                            *)
(***************************************************************************)
Null == [noteId |-> "null", fileId |-> "null", tabId |-> NoTabId,
         lastKnownRevisionId |-> NoRev, accessLost |-> FALSE]

Index(map, noteId) ==
    IF \E i \in 1..Len(map) : map[i].noteId = noteId
    THEN CHOOSE i \in 1..Len(map) : map[i].noteId = noteId
    ELSE 0

\* getBinding: map.notes[noteId] || null
getBinding(map, noteId) ==
    IF Index(map, noteId) = 0 THEN Null ELSE map[Index(map, noteId)]

\* findNoteIdByFileId: first entry, in key order, whose fileId matches
findNoteIdByFileId(map, fileId) ==
    IF \E i \in 1..Len(map) : map[i].fileId = fileId
    THEN map[CHOOSE i \in 1..Len(map) :
                /\ map[i].fileId = fileId
                /\ \A j \in 1..(i-1) : map[j].fileId # fileId].noteId
    ELSE "null"

\* updateSyncCheckpoint: merge lastKnownRevisionId, no-op when the note is absent
updateSyncCheckpoint(map, noteId, rev) ==
    IF Index(map, noteId) = 0 THEN map
    ELSE [map EXCEPT ![Index(map, noteId)].lastKnownRevisionId = rev]

\* markAccessLost: set the flag, no-op when the note is absent
markAccessLost(map, noteId) ==
    IF Index(map, noteId) = 0 THEN map
    ELSE [map EXCEPT ![Index(map, noteId)].accessLost = TRUE]

\* bindNote as the bindNote script calls it: merge {fileId, tabId} into the
\* record, or create the record at the end of the key order
bindNote(map, noteId, fileId, tabId) ==
    IF Index(map, noteId) = 0
    THEN Append(map, [noteId |-> noteId, fileId |-> fileId, tabId |-> tabId,
                      lastKnownRevisionId |-> NoRev, accessLost |-> FALSE])
    ELSE [map EXCEPT ![Index(map, noteId)].fileId = fileId,
                     ![Index(map, noteId)].tabId = tabId]

(***************************************************************************)
(* Binding store: the library functions as processes call them            *)
(***************************************************************************)
\* processes that share mapping.json
Procs == {"p1", "p2"}
\* cap on the number of store operations called
MaxStoreOps == 3

EmptyStore == [notes |-> <<>>, notebooks |-> <<>>]

\* mutant of loadMapping: the read always fails and the catch branch answers
loadMappingCatch(f, ns, nbs) == EmptyStore

\* loadMapping: a missing or unreadable file gives the empty store, a flat
\* file is promoted to {notes: data, notebooks: {}}, a namespaced file is
\* returned as it is
loadMapping(f, ns, nbs) ==
    IF f = "missing" THEN EmptyStore
    ELSE IF f = "flat" THEN [notes |-> ns, notebooks |-> <<>>]
    ELSE [notes |-> ns, notebooks |-> nbs]

\* saveMapping: the whole map is written, in the namespaced shape
saveMapping(data) ==
    /\ form' = "namespaced"
    /\ notes' = data.notes
    /\ notebooks' = data.notebooks

\* { ...rec, ...fields }
MergeFields(rec, fields) ==
    [k \in DOMAIN rec |-> IF k \in DOMAIN fields THEN fields[k] ELSE rec[k]]

\* the record of a note none of whose fields is set
NewRecord(noteId) == [Null EXCEPT !.noteId = noteId]

\* mutant of bindNoteWith: the record is replaced by the given fields
bindNoteReplace(map, noteId, binding) ==
    IF Index(map, noteId) = 0
    THEN Append(map, MergeFields(NewRecord(noteId), binding))
    ELSE [map EXCEPT ![Index(map, noteId)] = MergeFields(NewRecord(noteId), binding)]

\* bindNote on the loaded notes: map.notes[noteId] = { ...map.notes[noteId], ...binding }
bindNoteWith(map, noteId, binding) ==
    IF Index(map, noteId) = 0
    THEN Append(map, MergeFields(NewRecord(noteId), binding))
    ELSE [map EXCEPT ![Index(map, noteId)] = MergeFields(@, binding)]

\* What a library function does with the map it loaded: the map it ends
\* with, whether it calls saveMapping, and the value it returns.
bindNoteCall(st, noteId, binding) ==
    [store |-> [st EXCEPT !.notes = bindNoteWith(st.notes, noteId, binding)],
     write |-> TRUE,
     ret |-> getBinding(bindNoteWith(st.notes, noteId, binding), noteId)]

getBindingCall(st, noteId) ==
    [store |-> st, write |-> FALSE, ret |-> getBinding(st.notes, noteId)]

\* mutant of updateSyncCheckpointCall: the record is created when absent
updateSyncCheckpointUpsert(st, noteId, rev) ==
    [store |-> [st EXCEPT !.notes = bindNoteWith(st.notes, noteId,
                                                [lastKnownRevisionId |-> rev])],
     write |-> TRUE,
     ret |-> getBinding(bindNoteWith(st.notes, noteId, [lastKnownRevisionId |-> rev]),
                        noteId)]

updateSyncCheckpointCall(st, noteId, rev) ==
    IF getBinding(st.notes, noteId) = Null
    THEN [store |-> st, write |-> FALSE, ret |-> Null]
    ELSE [store |-> [st EXCEPT !.notes = updateSyncCheckpoint(st.notes, noteId, rev)],
          write |-> TRUE,
          ret |-> getBinding(updateSyncCheckpoint(st.notes, noteId, rev), noteId)]

markAccessLostCall(st, noteId) ==
    IF getBinding(st.notes, noteId) = Null
    THEN [store |-> st, write |-> FALSE, ret |-> Null]
    ELSE [store |-> [st EXCEPT !.notes = markAccessLost(st.notes, noteId)],
          write |-> TRUE,
          ret |-> getBinding(markAccessLost(st.notes, noteId), noteId)]

StoreCall(st, op) ==
    IF op.kind = "bindNote" THEN bindNoteCall(st, op.noteId, op.binding)
    ELSE IF op.kind = "updateSyncCheckpoint" THEN updateSyncCheckpointCall(st, op.noteId, op.rev)
    ELSE IF op.kind = "markAccessLost" THEN markAccessLostCall(st, op.noteId)
    ELSE getBindingCall(st, op.noteId)

\* the calls the scripts make
BindingArgs == { [fileId |-> "d2", tabId |-> "t1"], [tabId |-> "t2"] }
StoreOps ==
    {[kind |-> "bindNote", noteId |-> n, binding |-> b, rev |-> NoRev] :
        n \in NoteIds, b \in BindingArgs}
    \cup {[kind |-> k, noteId |-> n, binding |-> [tabId |-> NoTabId], rev |-> MaxRev] :
        k \in {"updateSyncCheckpoint", "markAccessLost", "getBinding"}, n \in NoteIds}
NoOp == [kind |-> "none", noteId |-> "none", binding |-> [tabId |-> NoTabId], rev |-> NoRev]
Pending == [Null EXCEPT !.noteId = "pending"]

\* a process calls a library function: its loadMapping reads the file
StoreLoad(p, op) ==
    /\ spc[p] = "idle"
    /\ nops < MaxStoreOps
    /\ nops' = nops + 1
    /\ ran' = ran \cup {p}
    /\ sop' = [sop EXCEPT ![p] = op]
    /\ mem' = [mem EXCEPT ![p] = loadMapping(form, notes, notebooks)]
    /\ ret' = [ret EXCEPT ![p] = Pending]
    /\ spc' = [spc EXCEPT ![p] = "loaded"]
    /\ UNCHANGED <<docs, notes, pushVars, pollVars, mdVars, notebooks, form, expect>>

\* the function changes its map, writes it back with saveMapping (or finds
\* the note absent and writes nothing) and returns
StoreReturn(p) ==
    /\ spc[p] = "loaded"
    /\ IF StoreCall(mem[p], sop[p]).write
       THEN saveMapping(StoreCall(mem[p], sop[p]).store)
       ELSE UNCHANGED <<form, notes, notebooks>>
    /\ ret' = [ret EXCEPT ![p] = StoreCall(mem[p], sop[p]).ret]
    /\ mem' = [mem EXCEPT ![p] = EmptyStore]
    /\ spc' = [spc EXCEPT ![p] = "idle"]
    /\ expect' = StoreCall(expect, sop[p]).store
    /\ UNCHANGED <<docs, pushVars, pollVars, mdVars, sop, ran, nops>>

\* no process is inside a store operation and none has run
StoreAtRest ==
    /\ notebooks = <<>>
    /\ form = "namespaced"
    /\ mem = [p \in Procs |-> EmptyStore]
    /\ spc = [p \in Procs |-> "idle"]
    /\ sop = [p \in Procs |-> NoOp]
    /\ ret = [p \in Procs |-> Pending]
    /\ expect = EmptyStore
    /\ ran = {}
    /\ nops = 0

(***************************************************************************)
(* mdToDocs: markdown -> projected buffer and style ranges                 *)
(***************************************************************************)
\* the mdToDocs script has not run
MdAtRest ==
    /\ md = <<>>
    /\ ir = <<>>
    /\ cfg = [useTitle |-> FALSE, subtitleItalic |-> FALSE]
    /\ mpc = "idle"
    /\ mdLines = <<>>
    /\ lineNo = 0
    /\ inFence = FALSE
    /\ plain = <<>>
    /\ cursor = 0
    /\ paraRanges = <<>>
    /\ textRanges = <<>>

CR == "\r"
\* md.replace(/\r\n/g, '\n').replace(/\r/g, '\n')
RECURSIVE NormalizeNewlines(_)
NormalizeNewlines(text) ==
    IF text = <<>> THEN <<>>
    ELSE IF Head(text) = CR
    THEN <<"\n">> \o NormalizeNewlines(IF Len(text) > 1 /\ text[2] = "\n"
                                       THEN Tail(Tail(text)) ELSE Tail(text))
    ELSE <<Head(text)>> \o NormalizeNewlines(Tail(text))

\* String.prototype.split('\n'): the pieces between the newlines, at least one
RECURSIVE SplitNL(_, _)
SplitNL(text, cur) ==
    IF text = <<>> THEN <<cur>>
    ELSE IF Head(text) = "\n" THEN <<cur>> \o SplitNL(Tail(text), <<>>)
    ELSE SplitNL(Tail(text), Append(cur, Head(text)))

\* the backquote character
BackTick == "backquote"

\* \s and [a-zA-Z0-9_-] over the characters of the model
IsSpace(c) == c \in {" ", "\n", "\r"}
LangChars == {"a", "b", "c", "d", "_", "-"}

\* number of leading characters of text that are in set
RECURSIVE LeadLen(_, _)
LeadLen(text, set) ==
    IF text # <<>> /\ Head(text) \in set THEN 1 + LeadLen(Tail(text), set) ELSE 0
Drop(text, k) == SubSeq(text, k + 1, Len(text))

\* original.match(/^```\s*([a-zA-Z0-9_-]+)?\s*$/)
fenceMatch(line) ==
    /\ Len(line) >= 3
    /\ \A j \in 1..3 : line[j] = BackTick
    /\ LET r1 == Drop(Drop(line, 3), LeadLen(Drop(line, 3), {" ", "\n", "\r"}))
           r2 == Drop(r1, LeadLen(r1, LangChars))
       IN  Drop(r2, LeadLen(r2, {" ", "\n", "\r"})) = <<>>

\* paragraphStyleFor with the heading names of the mapping
paragraphStyleFor(line) ==
    IF LeadLen(line, {"#"}) = 1 /\ Len(line) >= 2 /\ IsSpace(line[2]) THEN "HEADING_1"
    ELSE IF LeadLen(line, {"#"}) = 2 /\ Len(line) >= 3 /\ IsSpace(line[3]) THEN "HEADING_2"
    ELSE IF LeadLen(line, {"#"}) = 3 /\ Len(line) >= 4 /\ IsSpace(line[4]) THEN "HEADING_3"
    ELSE "NORMAL_TEXT"

\* line.replace(/^#{1,6}\s+/, '')
stripHeadingMarkers(line) ==
    LET k == LeadLen(line, {"#"})
    IN  IF k >= 1 /\ k <= 6 /\ Len(line) > k /\ IsSpace(line[k + 1])
        THEN Drop(Drop(line, k), LeadLen(Drop(line, k), {" ", "\n", "\r"}))
        ELSE line

\* The three inline patterns are n marker characters mk, one or more
\* characters other than mk, n marker characters mk.  InnerLenAt is the
\* length of the inner text of the match that starts at position s (from 1),
\* 0 when the pattern does not match there.
RECURSIVE RunLen(_, _, _)
RunLen(line, s, mk) ==
    IF s <= Len(line) /\ line[s] # mk THEN 1 + RunLen(line, s + 1, mk) ELSE 0
InnerLenAt(line, s, mk, n) ==
    LET len == RunLen(line, s + n, mk)
    IN  IF /\ s + 2 * n + len - 1 <= Len(line)
           /\ len >= 1
           /\ \A j \in 0..(n - 1) : line[s + j] = mk /\ line[s + n + len + j] = mk
        THEN len ELSE 0

\* re.exec(line) of a global pattern: the leftmost match at or after
\* lastIndex (an index from 0), as a position from 1; 0 when there is none
FindMatch(line, lastIndex, mk, n) ==
    IF \E s \in (lastIndex + 1)..Len(line) : InnerLenAt(line, s, mk, n) > 0
    THEN CHOOSE s \in (lastIndex + 1)..Len(line) :
            /\ InnerLenAt(line, s, mk, n) > 0
            /\ \A t \in (lastIndex + 1)..(s - 1) : InnerLenAt(line, t, mk, n) = 0
    ELSE 0

\* applyInline: the loop over the matches.  Each match is replaced in line
\* by its inner text; the recorded range starts at m.index - offset, where
\* m.index is an index of the line as it is now and offset is the number of
\* marker characters removed so far in this pass.
RECURSIVE applyInline(_, _, _, _, _, _)
applyInline(line, mk, n, cur, offset, lastIndex) ==
    LET s == FindMatch(line, lastIndex, mk, n)
        len == InnerLenAt(line, s, mk, n)
        inner == SubSeq(line, s + n, s + n + len - 1)
        startInLine == (s - 1) - offset
        replaced == SubSeq(line, 1, s - 1) \o inner \o Drop(line, s + 2 * n + len - 1)
        rest == applyInline(replaced, mk, n, cur, offset + 2 * n, (s - 1) + len)
    IN  IF s = 0 THEN [line |-> line, ranges |-> <<>>]
        ELSE [line |-> rest.line,
              ranges |-> <<[start |-> cur + startInLine,
                            end |-> cur + startInLine + len,
                            inner |-> inner]>> \o rest.ranges]

\* the textRanges entries of one pass; inner, para and fenced are history:
\* the inner text of the span, the number of the paragraph the line becomes,
\* and whether the line was inside a fence
TextRangesOf(ranges, bold, italic, para, fenced) ==
    [j \in 1..Len(ranges) |->
        [start |-> ranges[j].start, end |-> ranges[j].end, bold |-> bold, italic |-> italic,
         inner |-> ranges[j].inner, para |-> para, fenced |-> fenced]]

\* mutant of NextCursor: the line terminator is not counted
NextCursorNoTerminator(end) == end

\* cursor = end + 1
NextCursor(end) == end + 1

\* the script starts: the file is read and cut into lines
ParseStart ==
    /\ mpc = "start"
    /\ mdLines' = SplitNL(NormalizeNewlines(md), <<>>)
    /\ lineNo' = 1
    /\ mpc' = "parse"
    /\ UNCHANGED <<docs, notes, pushVars, pollVars, storeVars, md, ir, cfg, inFence, plain,
                   cursor, paraRanges, textRanges>>

\* one iteration of the loop over lines
ParseLine ==
    /\ mpc = "parse"
    /\ lineNo <= Len(mdLines)
    /\ lineNo' = lineNo + 1
    /\ LET original == mdLines[lineNo]
           style == IF inFence THEN "CODEBLOCK" ELSE paragraphStyleFor(original)
           line0 == IF inFence THEN original ELSE stripHeadingMarkers(original)
           bold == applyInline(line0, "*", 2, cursor, 0, 0)
           italic == applyInline(bold.line, "*", 1, cursor, 0, 0)
           under == applyInline(italic.line, "_", 1, cursor, 0, 0)
           line == under.line
           para == Len(paraRanges) + 1
       IN  IF fenceMatch(original)
           THEN /\ inFence' = ~inFence
                /\ UNCHANGED <<plain, cursor, paraRanges, textRanges>>
           ELSE /\ textRanges' = textRanges
                                   \o TextRangesOf(bold.ranges, TRUE, FALSE, para, inFence)
                                   \o TextRangesOf(italic.ranges, FALSE, TRUE, para, inFence)
                                   \o TextRangesOf(under.ranges, FALSE, TRUE, para, inFence)
                /\ plain' = plain \o line \o <<"\n">>
                /\ paraRanges' = Append(paraRanges,
                                        [start |-> cursor, end |-> cursor + Len(line),
                                         style |-> style, original |-> original])
                /\ cursor' = NextCursor(cursor + Len(line))
                /\ UNCHANGED inFence
    /\ UNCHANGED <<docs, notes, pushVars, pollVars, storeVars, md, ir, cfg, mpc, mdLines>>

\* mutant of FullItalic: a range of any style counts
FullItalicAnyRange(second) ==
    \E j \in 1..Len(textRanges) :
        textRanges[j].start <= second.start /\ textRanges[j].end >= second.end

\* the second line is SUBTITLE when an italic range covers it
FullItalic(second) ==
    \E j \in 1..Len(textRanges) :
        textRanges[j].italic /\ textRanges[j].start <= second.start
                             /\ textRanges[j].end >= second.end

\* after the loop: the first paragraph is TITLE, and a fully italic second
\* paragraph SUBTITLE, when the mapping says so
ParseEnd ==
    /\ mpc = "parse"
    /\ lineNo > Len(mdLines)
    /\ mpc' = "done"
    /\ paraRanges' =
         [k \in 1..Len(paraRanges) |->
            IF k = 1 /\ cfg.useTitle THEN [paraRanges[k] EXCEPT !.style = "TITLE"]
            ELSE IF k = 2 /\ cfg.subtitleItalic /\ FullItalic(paraRanges[2])
                 THEN [paraRanges[k] EXCEPT !.style = "SUBTITLE"]
                 ELSE paraRanges[k]]
    /\ UNCHANGED <<docs, notes, pushVars, pollVars, storeVars, md, ir, cfg, mdLines, lineNo,
                   inFence, plain, cursor, textRanges>>

(***************************************************************************)
(* Remote document service                                                 *)
(***************************************************************************)
\* A tab body is body.content: a sequence of paragraphs, each
\* [style, runs], a run being [text, bold, italic]; the text of the last run
\* of a paragraph ends with the paragraph's line terminator, and the last
\* paragraph's terminator is the final implicit one, which cannot be deleted.
Run(text) == [text |-> text, bold |-> FALSE, italic |-> FALSE]
Para(style, runs) == [style |-> style, runs |-> runs]

RECURSIVE Concat(_)
Concat(seqs) == IF seqs = <<>> THEN <<>> ELSE Head(seqs) \o Concat(Tail(seqs))

\* the flat text cut after every line terminator
RECURSIVE SplitLines(_, _)
SplitLines(text, cur) ==
    IF text = <<>> THEN (IF cur = <<>> THEN <<>> ELSE <<cur>>)
    ELSE IF Head(text) = NL
         THEN <<Append(cur, NL)>> \o SplitLines(Tail(text), <<>>)
         ELSE SplitLines(Tail(text), Append(cur, Head(text)))

\* the unstyled body holding a flat text (which ends with the final terminator)
PlainBody(text) ==
    [i \in 1..Len(SplitLines(text, <<>>)) |->
        Para("NORMAL_TEXT", <<Run(SplitLines(text, <<>>)[i])>>)]

\* the tab of a fetched document, searched through the whole tab tree
\* (doc.tabs holds the tabs of every depth), NoTab when there is no such tab
findTab(doc, tabId) ==
    IF tabId \in DOMAIN doc.tabs THEN doc.tabs[tabId] ELSE NoTab

\* getTabText / extractTabText: every text run of every paragraph, concatenated
ParaText(p) == Concat([j \in 1..Len(p.runs) |-> p.runs[j].text])
getTabText(body) == Concat([i \in 1..Len(body) |-> ParaText(body[i])])

\* endIndex of the last structural element of a body; the text starts at index 1
LastEndIndex(body) == 1 + Len(getTabText(body))

\* One request applied to the flat text of a body.  Index i of the remote
\* buffer is position i of the text.  "invalid" for a request the service
\* refuses: an empty range, a range reaching the final terminator, an index
\* outside the body.
Invalid == <<"invalid">>
ApplyRequest(text, req) ==
    IF text = Invalid THEN Invalid
    ELSE IF req.op = "deleteContentRange"
    THEN IF req.startIndex >= 1 /\ req.startIndex < req.endIndex /\ req.endIndex <= Len(text)
         THEN SubSeq(text, 1, req.startIndex - 1) \o SubSeq(text, req.endIndex, Len(text))
         ELSE Invalid
    ELSE IF req.index >= 1 /\ req.index <= Len(text)
         THEN SubSeq(text, 1, req.index - 1) \o req.text \o SubSeq(text, req.index, Len(text))
         ELSE Invalid

RECURSIVE ApplyRequests(_, _)
ApplyRequests(text, reqs) ==
    IF reqs = <<>> THEN text
    ELSE ApplyRequests(ApplyRequest(text, Head(reqs)), Tail(reqs))

NoGuard == -1
\* documents.batchUpdate: the whole request list is applied, or none of it.
\* The answer is "revisionConflict" when writeControl.requiredRevisionId is
\* given and is not the document's current revision, "invalid" when a request
\* is refused, else "ok"; an applied batch gives the document a new revision.
BatchAnswer(doc, tabId, reqs, guard) ==
    IF guard # NoGuard /\ guard # doc.rev THEN "revisionConflict"
    ELSE IF findTab(doc, tabId) = NoTab THEN "invalid"
    ELSE IF ApplyRequests(getTabText(findTab(doc, tabId)), reqs) = Invalid THEN "invalid"
    ELSE "ok"

BatchResult(doc, tabId, reqs, guard) ==
    IF BatchAnswer(doc, tabId, reqs, guard) # "ok" THEN doc
    ELSE [rev |-> doc.rev + 1,
          tabs |-> [doc.tabs EXCEPT ![tabId] =
                      PlainBody(ApplyRequests(getTabText(doc.tabs[tabId]), reqs))]]

(***************************************************************************)
(* Push scripts: pullPush, pullPushByNote, replaceTabBody                  *)
(***************************************************************************)
PullScripts == {"pullPush", "pullPushByNote"}
Scripts == PullScripts \cup {"replaceTabBody"}
NoPush == [doc |-> "none", tab |-> NoTabId, text |-> <<>>]

\* mutant of BuildRequests: the current content is not deleted
BuildRequestsInsertOnly(body, text) ==
    <<[op |-> "insertText", index |-> 1, text |-> text]>>

\* the request list: delete the current content up to the final terminator
\* when endIndex > 1, then insert the local text at index 1
BuildRequests(body, text) ==
    (IF LastEndIndex(body) > 1
     THEN <<[op |-> "deleteContentRange", startIndex |-> 1,
             endIndex |-> LastEndIndex(body) - 1]>>
     ELSE <<>>)
    \o <<[op |-> "insertText", index |-> 1, text |-> text]>>

\* mutant of RequiredRevisionId: the batchUpdate carries no writeControl
NoWriteControl == NoGuard

\* writeControl.requiredRevisionId of the batchUpdate: the revision just fetched
RequiredRevisionId == revisionId

\* exit code of the "tab not found" and of the "push failed" exits
TabNotFoundExit(sc) == IF sc = "pullPushByNote" THEN 3 ELSE 2
PushFailedExit(sc) == IF sc = "pullPush" THEN 3 ELSE 4

Finish(code) ==
    /\ pc' = "done"
    /\ exitCode' = code

\* the script starts: arguments, and for pullPushByNote the binding lookup
StartPush(sc, note, doc, tab, text) ==
    /\ pc \in {"idle", "done"}
    /\ \A d \in Docs : docs[d].rev < MaxRev
    /\ script' = sc
    /\ pText' = text
    /\ revisionId' = NoRev
    /\ requests' = <<>>
    /\ resp' = "none"
    /\ pushedRev' = NoRev
    /\ IF sc = "pullPushByNote"
       THEN /\ pNote' = note
            /\ IF getBinding(notes, note) = Null
               THEN /\ Finish(2)
                    /\ pDoc' = "none"
                    /\ pTab' = NoTabId
               ELSE /\ pc' = "get"
                    /\ exitCode' = -1
                    /\ pDoc' = getBinding(notes, note).fileId
                    /\ pTab' = getBinding(notes, note).tabId
       ELSE /\ pNote' = "none"
            /\ pDoc' = doc
            /\ pTab' = tab
            /\ pc' = "get"
            /\ exitCode' = -1
    /\ UNCHANGED <<docs, notes, lastPush, pollVars, libVars>>

\* documents.get, then everything up to the batchUpdate call: tab lookup,
\* compare (pull scripts), request list
Pull ==
    /\ pc = "get"
    /\ revisionId' = docs[pDoc].rev
    /\ IF findTab(docs[pDoc], pTab) = NoTab
       THEN /\ Finish(TabNotFoundExit(script))
            /\ requests' = <<>>
       ELSE IF script \in PullScripts /\ getTabText(findTab(docs[pDoc], pTab)) = pText
       THEN /\ Finish(0)
            /\ requests' = <<>>
       ELSE /\ pc' = "batchUpdate"
            /\ requests' = BuildRequests(findTab(docs[pDoc], pTab), pText)
            /\ UNCHANGED exitCode
    /\ UNCHANGED <<docs, notes, script, pNote, pDoc, pTab, pText, resp, pushedRev, lastPush, pollVars, libVars>>

\* documents.batchUpdate answered by the service
Push ==
    /\ pc = "batchUpdate"
    /\ resp' = BatchAnswer(docs[pDoc], pTab, requests, RequiredRevisionId)
    /\ docs' = [docs EXCEPT ![pDoc] = BatchResult(docs[pDoc], pTab, requests, RequiredRevisionId)]
    /\ IF resp' = "ok"
       THEN /\ pushedRev' = docs'[pDoc].rev
            /\ lastPush' = [doc |-> pDoc, tab |-> pTab, text |-> pText]
            /\ IF script = "replaceTabBody"
               THEN pc' = "get2" /\ UNCHANGED exitCode
               ELSE Finish(0)
       ELSE /\ Finish(PushFailedExit(script))
            /\ UNCHANGED <<pushedRev, lastPush>>
    /\ UNCHANGED <<notes, script, pNote, pDoc, pTab, pText, revisionId, requests, pollVars, libVars>>

\* replaceTabBody after its write: second documents.get, reverse lookup of the
\* note by document id, checkpoint update
Checkpoint ==
    /\ pc = "get2"
    /\ notes' = IF findNoteIdByFileId(notes, pDoc) # "null"
                THEN updateSyncCheckpoint(notes, findNoteIdByFileId(notes, pDoc), docs[pDoc].rev)
                ELSE notes
    /\ Finish(0)
    /\ UNCHANGED <<docs, script, pNote, pDoc, pTab, pText, revisionId, requests,
                   resp, pushedRev, lastPush, pollVars, libVars>>

\* a remote call of the script fails (network, permission): the first get is
\* not caught (exit 1), the calls inside try/catch end with the failure exit
PushCallFails ==
    /\ pc \in {"get", "batchUpdate", "get2"}
    /\ IF pc = "get" THEN Finish(1) ELSE Finish(PushFailedExit(script))
    /\ resp' = IF pc = "batchUpdate" THEN "error" ELSE resp
    /\ UNCHANGED <<docs, notes, script, pNote, pDoc, pTab, pText, revisionId, requests,
                   pushedRev, lastPush, pollVars, libVars>>

\* another writer edits a tab of a document
RemoteEdit(d, t, text) ==
    /\ docs[d].rev < MaxRev
    /\ t \in DOMAIN docs[d].tabs
    /\ docs' = [docs EXCEPT ![d] = [rev |-> docs[d].rev + 1,
                   tabs |-> [docs[d].tabs EXCEPT ![t] = PlainBody(text \o <<NL>>)]]]
    /\ lastPush' = NoPush
    /\ UNCHANGED <<notes, pc, script, pNote, pDoc, pTab, pText, revisionId, requests,
                   exitCode, resp, pushedRev, pollVars, libVars>>

Binding(n, d, t, rev) ==
    [noteId |-> n, fileId |-> d, tabId |-> t, lastKnownRevisionId |-> rev, accessLost |-> FALSE]

\* stores the bindNote script and earlier pulls leave behind
InitStores ==
    { <<Binding("n1", "d1", "t1", 1), Binding("n2", "d1", "t2", 1)>>,
      <<Binding("n1", "d1", "t2", 1), Binding("n2", "d2", "t1", 1)>>,
      <<Binding("n2", "d1", "t3", NoRev)>> }

EmptyBody == PlainBody(<<NL>>)

NoPull == [note |-> "none", rev |-> NoRev, pos |-> 0]

\* the poller is not running and has never run
PollerAtRest ==
    /\ feed = <<>>
    /\ stToken = NoToken
    /\ shadow = [n \in NoteIds |-> NoFile]
    /\ watch = FALSE
    /\ ppc = "exited"
    /\ pageToken = NoToken
    /\ page = <<>>
    /\ pagePos = 0
    /\ nextPageToken = NoToken
    /\ newStartPageToken = NoToken
    /\ c0 = NoToken
    /\ tickStart = NoToken
    /\ saves = 0
    /\ lastPull = NoPull
    /\ lastError = "none"
    /\ lost = {}
    /\ binds = 0
    /\ plog = "none"
    /\ intervalArg = NoArg
    /\ slept = NoSleep

InitPush ==
    /\ \E text \in RemoteTexts :
         docs = [d \in Docs |->
                   IF d = "d1"
                   THEN [rev |-> 1, tabs |-> [t \in {"t1", "t2"} |->
                            IF t = "t1" THEN PlainBody(text \o <<NL>>) ELSE EmptyBody]]
                   ELSE [rev |-> 1, tabs |-> [t \in {"t1"} |-> EmptyBody]]]
    /\ notes \in InitStores
    /\ pc = "idle"
    /\ script = "none"
    /\ pNote = "none"
    /\ pDoc = "none"
    /\ pTab = NoTabId
    /\ pText = <<>>
    /\ revisionId = NoRev
    /\ requests = <<>>
    /\ exitCode = -1
    /\ resp = "none"
    /\ pushedRev = NoRev
    /\ lastPush = NoPush
    /\ PollerAtRest
    /\ StoreAtRest
    /\ MdAtRest

NextPush ==
    \/ \E sc \in Scripts, note \in NoteIds, tab \in TabIds, text \in Texts :
          StartPush(sc, note, "d1", tab, text)
    \/ Pull
    \/ Push
    \/ Checkpoint
    \/ PushCallFails
    \/ \E t \in {"t1", "t2"}, text \in RemoteTexts : RemoteEdit("d1", t, text)

SpecPush == InitPush /\ [][NextPush]_vars

(***************************************************************************)
(* Properties of the push scripts (checked under SpecPush)                 *)
(***************************************************************************)
\* the step in which the script's batchUpdate call returns
PushReturns == pc = "batchUpdate" /\ pc' \in {"done", "get2"}

\* C1: conflict safety.  When the document's revision is no longer the
\* revision the script fetched (a concurrent edit came between the fetch and
\* the batchUpdate), the batchUpdate changes nothing of the remote documents
\* and the script ends with its failure exit code, never with success.
ConflictSafety ==
    [][(PushReturns /\ docs[pDoc].rev # revisionId)
          => /\ docs' = docs
             /\ pc' = "done"
             /\ exitCode' = PushFailedExit(script)
             /\ resp' # "ok"]_vars

\* C1 witness: a push was answered with a revision conflict and ended with
\* the failure exit code
ConflictReported ==
    /\ pc = "done"
    /\ resp = "revisionConflict"
    /\ exitCode = PushFailedExit(script)
    /\ docs[pDoc].rev # revisionId

\* C2 (as claimed): a pullPushByNote push whose note's stored
\* lastKnownRevisionId is not the document's current revision, after an
\* earlier push to that document succeeded, is rejected and leaves the
\* remote documents unchanged.
StaleBindingPushRejected ==
    [][(/\ PushReturns
        /\ script = "pullPushByNote"
        /\ lastPush.doc = pDoc
        /\ getBinding(notes, pNote).lastKnownRevisionId # docs[pDoc].rev)
          => /\ docs' = docs
             /\ exitCode' # 0]_vars

\* C3 (as claimed): a pull script that repeats the last successful push (same
\* tab, same local text, no remote edit in between) never gets to issue a
\* batchUpdate: its compare finds no difference.
PushIdempotent ==
    ~(/\ pc = "batchUpdate"
      /\ script \in PullScripts
      /\ lastPush = [doc |-> pDoc, tab |-> pTab, text |-> pText])

\* C4 (as claimed): once pullPushByNote or replaceTabBody has pushed
\* successfully, every note bound to the pushed (document, tab) has
\* lastKnownRevisionId equal to the revision the document took by that push.
PushPersistsRevision ==
    (/\ pc = "done"
     /\ resp = "ok"
     /\ script \in {"pullPushByNote", "replaceTabBody"})
       => \A i \in 1..Len(notes) :
             (notes[i].fileId = pDoc /\ notes[i].tabId = pTab)
                => notes[i].lastKnownRevisionId = pushedRev

\* C5 (as claimed): a binding's lastKnownRevisionId changes only in the
\* checkpoint step of a successful push of the (document, tab) the note is
\* bound to.
RevisionOnlyByOwnUnit ==
    [][\A i \in 1..Len(notes) :
          (Len(notes') = Len(notes)
           /\ notes'[i].lastKnownRevisionId # notes[i].lastKnownRevisionId)
             => /\ pc = "get2"
                /\ resp = "ok"
                /\ pDoc = notes[i].fileId
                /\ pTab = notes[i].tabId]_vars

(***************************************************************************)
(* Change poller: remote body -> shadow text                               *)
(***************************************************************************)
\* config/md-mapping.json: inline markers and subtitle mode
BoldMarker == <<"*", "*">>
ItalicMarker == <<"*">>
SubtitleItalic == TRUE

\* text.replace(/\n+$/, '') and the trailing newlines it removes
RECURSIVE StripNL(_)
StripNL(text) ==
    IF text # <<>> /\ text[Len(text)] = NL
    THEN StripNL(SubSeq(text, 1, Len(text) - 1))
    ELSE text
TrailNL(text) == SubSeq(text, Len(StripNL(text)) + 1, Len(text))

\* String.prototype.trim over the characters of the model
WhiteSpace == {" ", NL}
RECURSIVE Trim(_)
Trim(text) ==
    IF text # <<>> /\ Head(text) \in WhiteSpace THEN Trim(Tail(text))
    ELSE IF text # <<>> /\ text[Len(text)] \in WhiteSpace
         THEN Trim(SubSeq(text, 1, Len(text) - 1))
         ELSE text

\* runsToMarkdown: each run wrapped in its markers, trailing newlines kept
\* outside the markers
RunMarkdown(r) ==
    IF StripNL(r.text) = <<>> THEN r.text
    ELSE (IF r.bold /\ r.italic
          THEN BoldMarker \o ItalicMarker \o StripNL(r.text) \o ItalicMarker \o BoldMarker
          ELSE IF r.bold THEN BoldMarker \o StripNL(r.text) \o BoldMarker
          ELSE IF r.italic THEN ItalicMarker \o StripNL(r.text) \o ItalicMarker
          ELSE StripNL(r.text))
         \o TrailNL(r.text)
runsToMarkdown(runs) == Concat([j \in 1..Len(runs) |-> RunMarkdown(runs[j])])

\* paras.find(p => p.style === 'TITLE'): index of the first TITLE paragraph
FirstWithStyle(body, style, skip) ==
    IF \E i \in 1..Len(body) : i # skip /\ body[i].style = style
    THEN CHOOSE i \in 1..Len(body) :
            /\ i # skip /\ body[i].style = style
            /\ \A j \in 1..(i-1) : j = skip \/ body[j].style # style
    ELSE 0
TitleIndex(body) == FirstWithStyle(body, "TITLE", 0)
TitleText(body) ==
    IF TitleIndex(body) = 0 THEN <<>>
    ELSE Trim(StripNL(runsToMarkdown(body[TitleIndex(body)].runs)))

\* the line of paragraph i: the first SUBTITLE paragraph is wrapped in _..._
ContentLine(body, i) ==
    IF SubtitleItalic /\ i = FirstWithStyle(body, "SUBTITLE", TitleIndex(body))
    THEN <<"_">> \o StripNL(runsToMarkdown(body[i].runs)) \o <<"_">>
    ELSE StripNL(runsToMarkdown(body[i].runs))

RECURSIVE ContentLines(_, _)
ContentLines(body, i) ==
    IF i > Len(body) THEN <<>>
    ELSE IF i = TitleIndex(body) THEN ContentLines(body, i + 1)
    ELSE <<ContentLine(body, i)>> \o ContentLines(body, i + 1)

RECURSIVE Join(_)
Join(lines) ==
    IF lines = <<>> THEN <<>>
    ELSE IF Len(lines) = 1 THEN lines[1]
    ELSE lines[1] \o <<NL>> \o Join(Tail(lines))

\* mdOut: "# title" first when there is a title text, then every other paragraph
MdOut(body) ==
    Join((IF TitleText(body) # <<>> THEN << <<"#", " ">> \o TitleText(body) >> ELSE <<>>)
         \o ContentLines(body, 1))

(***************************************************************************)
(* Change poller: the remote change feed                                   *)
(***************************************************************************)
\* A page token is a position of the feed: the changes from that position on
\* are the ones not yet reported.
\* changes.getStartPageToken: the position after the last change
StartPageToken == Len(feed) + 1

\* changes.list(pageToken): up to PageSize changes, with nextPageToken when
\* more follow and newStartPageToken on the last page
ListChanges(token) ==
    [changes |-> SubSeq(feed, token, IF token + PageSize - 1 < Len(feed)
                                     THEN token + PageSize - 1 ELSE Len(feed)),
     nextPageToken |-> IF token + PageSize - 1 < Len(feed) THEN token + PageSize ELSE NoToken,
     newStartPageToken |-> IF token + PageSize - 1 < Len(feed) THEN NoToken ELSE Len(feed) + 1]

(***************************************************************************)
(* Change poller: the --interval argument and the sleep of the watch loop  *)
(***************************************************************************)
\* a JavaScript number: NaN, an integer up to 2147483647, or Big for any
\* number greater than that
TimeoutMax == 2147483647
NaN == [nan |-> TRUE, big |-> FALSE, val |-> 0]
Num(k) == [nan |-> FALSE, big |-> FALSE, val |-> k]
Big == [nan |-> FALSE, big |-> TRUE, val |-> TimeoutMax]

Digits == <<"0", "1", "2", "3", "4", "5", "6", "7", "8", "9">>
IsDigit(c) == \E k \in 1..10 : Digits[k] = c
DigitVal(c) == (CHOOSE k \in 1..10 : Digits[k] = c) - 1

\* value of the leading digits of text, read after the value acc
RECURSIVE DigitsValue(_, _)
DigitsValue(text, acc) ==
    IF text # <<>> /\ IsDigit(Head(text))
    THEN DigitsValue(Tail(text), 10 * acc + DigitVal(Head(text)))
    ELSE acc

\* parseInt(text, 10): leading white space is skipped, then an optional
\* sign, then the digits up to the first other character; NaN without a digit
parseInt(text) ==
    LET t == Drop(text, LeadLen(text, WhiteSpace))
        signed == t # <<>> /\ Head(t) \in {"-", "+"}
        u == IF signed THEN Tail(t) ELSE t
    IN  IF u = <<>> \/ ~IsDigit(Head(u)) THEN NaN
        ELSE Num((IF signed /\ Head(t) = "-" THEN -1 ELSE 1) * DigitsValue(u, 0))

\* intervalSecArg ? parseInt(intervalSecArg.split('=')[1], 10) : 60
intervalSec == IF intervalArg = NoArg THEN Num(60) ELSE parseInt(intervalArg)

\* Math.max(k, x) and x * k for a number k > 0: NaN stays NaN
MathMax(k, x) == IF x.nan \/ x.big THEN x ELSE Num(IF x.val > k THEN x.val ELSE k)
Times(x, k) ==
    IF x.nan \/ x.big THEN x
    ELSE IF x.val > TimeoutMax \div k THEN Big ELSE Num(x.val * k)

\* setTimeout(r, delay): a delay that is NaN, less than 1 or greater than
\* 2147483647 is set to 1
SetTimeoutDelay(delay) ==
    IF delay.nan \/ delay.big \/ delay.val < 1 THEN 1 ELSE delay.val

(***************************************************************************)
(* Change poller: main, initIfNeeded, processOnce                          *)
(***************************************************************************)
\* mutant of OnPollError: no try/catch around processOnce
OnPollErrorUncaught(w) == "exited"

\* where main goes when processOnce throws: the watch loop catches and
\* sleeps, a single run ends with the rejection
OnPollError(w) == IF w THEN "sleep" ELSE "exited"

\* mutant of SavesState: saveState is called at the end of every page
SavesStateEveryPage(next) == TRUE

\* where main goes when processOnce returns
OnTickDone(w) == IF w THEN "sleep" ELSE "exited"

\* the page-end branch that calls saveState: the page has no continuation
SavesState(next) == next = NoToken

\* the token saveState writes: data.newStartPageToken || pageToken
SavedToken(newStart, token) == IF newStart # NoToken THEN newStart ELSE token

\* processOnce is left: its locals are gone
LocalsGone ==
    /\ pageToken' = NoToken
    /\ page' = <<>>
    /\ pagePos' = 0
    /\ nextPageToken' = NoToken
    /\ newStartPageToken' = NoToken

\* mutant of initIfNeeded: the first run stores the position of the last
\* change instead of the start token
initIfNeededLastChange(st) ==
    IF st # NoToken THEN [saved |-> st, ret |-> st]
    ELSE [saved |-> IF feed = <<>> THEN StartPageToken ELSE Len(feed), ret |-> NoToken]

\* initIfNeeded: the stored token is returned when there is one; else the
\* feed's start token is fetched and saved, and null is returned
initIfNeeded(st) ==
    IF st # NoToken THEN [saved |-> st, ret |-> st]
    ELSE [saved |-> StartPageToken, ret |-> NoToken]

\* the poller process starts: initIfNeeded and main's dispatch on its result
Main ==
    /\ ppc = "main"
    /\ stToken' = initIfNeeded(stToken).saved
    /\ c0' = IF stToken = NoToken THEN Len(feed) + 1 ELSE c0
    /\ ppc' = IF initIfNeeded(stToken).ret = NoToken /\ ~watch THEN "exited" ELSE "tick"
    /\ UNCHANGED <<docs, notes, pushVars, libVars, feed, shadow, watch, intervalArg, slept, pageToken, page, pagePos,
                   nextPageToken, newStartPageToken, tickStart, saves, lastPull,
                   lastError, lost, binds, plog>>

\* processOnce begins: loadState
TickStart ==
    /\ ppc = "tick"
    /\ IF stToken = NoToken
       THEN /\ ppc' = OnTickDone(watch)
            /\ UNCHANGED pageToken
       ELSE /\ ppc' = "list"
            /\ pageToken' = stToken
    /\ tickStart' = stToken
    /\ saves' = 0
    /\ lastError' = "none"
    /\ lastPull' = NoPull
    /\ plog' = "none"
    /\ UNCHANGED <<docs, notes, pushVars, libVars, feed, stToken, shadow, watch, intervalArg, slept, page, pagePos,
                   nextPageToken, newStartPageToken, c0, lost, binds>>

\* drive.changes.list answers
ListPage ==
    /\ ppc = "list"
    /\ page' = ListChanges(pageToken).changes
    /\ pagePos' = pageToken
    /\ nextPageToken' = ListChanges(pageToken).nextPageToken
    /\ newStartPageToken' = ListChanges(pageToken).newStartPageToken
    /\ lastPull' = NoPull
    /\ plog' = "none"
    /\ ppc' = "changes"
    /\ UNCHANGED <<docs, notes, pushVars, libVars, feed, stToken, shadow, watch, intervalArg, slept, pageToken,
                   c0, tickStart, saves, lastError, lost, binds>>

\* the change at the head of the page needs a documents.get
NeedsFetch(ch) ==
    /\ findNoteIdByFileId(notes, ch.fileId) # "null"
    /\ ~ch.removed
    /\ getBinding(notes, findNoteIdByFileId(notes, ch.fileId)).tabId # NoTabId

\* mutant of WriteShadow: the pulled text is appended to the file
WriteShadowAppend(old, text) == IF old = NoFile THEN text ELSE old \o text

\* fs.writeFileSync(targetPath, mdOut): the file is replaced by the text
WriteShadow(old, text) == text

\* the body of the loop over data.changes for one change: what it leaves in
\* the store and in the shadow files, the note it pulled or marked lost
\* ("none" if it did not), the line it printed
ChangeEffect(ns, sh, ch) ==
    LET noteId == findNoteIdByFileId(ns, ch.fileId)
        binding == getBinding(ns, noteId)
        tab == findTab(docs[ch.fileId], binding.tabId)
        skip == [notes |-> ns, shadow |-> sh, pulled |-> "none", lost |-> "none",
                 plog |-> "none"]
    IN  IF noteId = "null" THEN skip
        ELSE IF ch.removed
        THEN [skip EXCEPT !.notes = markAccessLost(ns, noteId), !.lost = noteId,
                          !.plog = "Access lost for note"]
        ELSE IF binding = Null \/ binding.tabId = NoTabId \/ tab = NoTab THEN skip
        ELSE [skip EXCEPT !.notes = updateSyncCheckpoint(ns, noteId, docs[ch.fileId].rev),
                          !.shadow = [sh EXCEPT ![noteId] = WriteShadow(sh[noteId], MdOut(tab))],
                          !.pulled = noteId,
                          !.plog = "Pulled update for note"]

\* one iteration of the loop over data.changes, its documents.get answered
ProcessChange ==
    /\ ppc = "changes"
    /\ page # <<>>
    /\ LET eff == ChangeEffect(notes, shadow, Head(page))
       IN  /\ notes' = eff.notes
           /\ shadow' = eff.shadow
           /\ plog' = eff.plog
           /\ lost' = IF eff.lost = "none" THEN lost ELSE lost \cup {eff.lost}
           /\ lastPull' = IF eff.pulled = "none" THEN NoPull
                          ELSE [note |-> eff.pulled, rev |-> docs[Head(page).fileId].rev,
                                pos |-> pagePos]
    /\ page' = Tail(page)
    /\ pagePos' = pagePos + 1
    /\ UNCHANGED <<docs, pushVars, libVars, feed, stToken, watch, intervalArg, slept, ppc, pageToken,
                   nextPageToken, newStartPageToken, c0, tickStart, saves, lastError, binds>>

\* the loop over data.changes is over: next page, or save the cursor and return
EndPage ==
    /\ ppc = "changes"
    /\ page = <<>>
    /\ IF SavesState(nextPageToken)
       THEN /\ stToken' = SavedToken(newStartPageToken, pageToken)
            /\ saves' = saves + 1
       ELSE UNCHANGED <<stToken, saves>>
    /\ IF nextPageToken # NoToken
       THEN /\ pageToken' = nextPageToken
            /\ ppc' = "list"
            /\ UNCHANGED <<page, pagePos, nextPageToken, newStartPageToken>>
       ELSE /\ ppc' = OnTickDone(watch)
            /\ LocalsGone
    /\ lastPull' = NoPull
    /\ plog' = "none"
    /\ UNCHANGED <<docs, notes, pushVars, libVars, feed, shadow, watch, intervalArg, slept, c0, tickStart,
                   lastError, lost, binds>>

\* drive.changes.list or docs.documents.get throws inside processOnce
PollCallFails ==
    /\ \/ ppc = "list" /\ lastError' = "list"
       \/ ppc = "changes" /\ page # <<>> /\ NeedsFetch(Head(page)) /\ lastError' = "get"
    /\ ppc' = OnPollError(watch)
    /\ LocalsGone
    /\ lastPull' = NoPull
    /\ plog' = "none"
    /\ UNCHANGED <<docs, notes, pushVars, libVars, feed, stToken, shadow, watch, intervalArg, slept, c0, tickStart,
                   saves, lost, binds>>

\* the watch loop's sleep is over
Wake ==
    /\ ppc = "sleep"
    /\ ppc' = "tick"
    /\ slept' = SetTimeoutDelay(Times(MathMax(5, intervalSec), 1000))
    /\ UNCHANGED <<docs, notes, pushVars, libVars, feed, stToken, shadow, watch, intervalArg, pageToken, page,
                   pagePos, nextPageToken, newStartPageToken, c0, tickStart, saves,
                   lastPull, lastError, lost, binds, plog>>

\* the poller process is killed
Crash ==
    /\ ppc \in {"list", "changes"}
    /\ ppc' = "exited"
    /\ LocalsGone
    /\ lastPull' = NoPull
    /\ plog' = "none"
    /\ lastError' = "killed"
    /\ UNCHANGED <<docs, notes, pushVars, libVars, feed, stToken, shadow, watch, intervalArg, slept, c0, tickStart,
                   saves, lost, binds>>

\* the poller is run again
RunPoller ==
    /\ ppc = "exited"
    /\ ppc' = "main"
    /\ UNCHANGED <<docs, notes, pushVars, libVars, feed, stToken, shadow, watch, intervalArg, slept, pageToken, page,
                   pagePos, nextPageToken, newStartPageToken, c0, tickStart, saves,
                   lastPull, lastError, lost, binds, plog>>

\* bodies another writer leaves in a tab
BodyA == PlainBody(<<"a", NL>>)
BodyB ==
    <<Para("TITLE", <<Run(<<"t", NL>>)>>),
      Para("NORMAL_TEXT", <<[text |-> <<"b">>, bold |-> TRUE, italic |-> FALSE],
                            Run(<<NL>>)>>)>>

\* another writer edits a tab of a document: the feed reports the change
FeedEdit(d, t) ==
    /\ Len(feed) < MaxFeed
    /\ docs' = [docs EXCEPT ![d] = [rev |-> docs[d].rev + 1,
                   tabs |-> [docs[d].tabs EXCEPT ![t] =
                               IF docs[d].tabs[t] = BodyA THEN BodyB ELSE BodyA]]]
    /\ feed' = Append(feed, [fileId |-> d, removed |-> FALSE])
    /\ UNCHANGED <<notes, pushVars, libVars, stToken, shadow, watch, intervalArg, slept, ppc, pageToken, page, pagePos,
                   nextPageToken, newStartPageToken, c0, tickStart, saves, lastPull,
                   lastError, lost, binds, plog>>

\* a document is trashed or access to it is revoked: the feed reports it removed
FeedRemove(d) ==
    /\ Len(feed) < MaxFeed
    /\ feed' = Append(feed, [fileId |-> d, removed |-> TRUE])
    /\ UNCHANGED <<docs, notes, pushVars, libVars, stToken, shadow, watch, intervalArg, slept, ppc, pageToken, page,
                   pagePos, nextPageToken, newStartPageToken, c0, tickStart, saves,
                   lastPull, lastError, lost, binds, plog>>

\* the bindNote script, run while no tick of the poller is in progress
\* (one process at a time works on the store)
BindNoteScript(n, d, t) ==
    /\ ppc \in {"main", "sleep", "exited"}
    /\ binds < MaxBinds
    /\ binds' = binds + 1
    /\ notes' = bindNote(notes, n, d, t)
    /\ lost' = lost \ {n}
    /\ UNCHANGED <<docs, pushVars, libVars, feed, stToken, shadow, watch, intervalArg, slept, ppc, pageToken, page,
                   pagePos, nextPageToken, newStartPageToken, c0, tickStart, saves,
                   lastPull, lastError, plog>>

PusherAtRest ==
    /\ pc = "idle"
    /\ script = "none"
    /\ pNote = "none"
    /\ pDoc = "none"
    /\ pTab = NoTabId
    /\ pText = <<>>
    /\ revisionId = NoRev
    /\ requests = <<>>
    /\ exitCode = -1
    /\ resp = "none"
    /\ pushedRev = NoRev
    /\ lastPush = NoPush

InitPoll ==
    /\ docs = [d \in Docs |->
                 IF d = "d1"
                 THEN [rev |-> 1, tabs |-> [t \in {"t1", "t2"} |->
                          IF t = "t1" THEN EmptyBody ELSE PlainBody(<<"b", NL>>)]]
                 ELSE [rev |-> 1, tabs |-> [t \in {"t1"} |-> EmptyBody]]]
    /\ notes \in InitStores
    /\ PusherAtRest
    /\ feed = <<>>
    /\ stToken = NoToken
    /\ shadow = [n \in NoteIds |-> NoFile]
    /\ watch \in BOOLEAN
    /\ ppc = "main"
    /\ pageToken = NoToken
    /\ page = <<>>
    /\ pagePos = 0
    /\ nextPageToken = NoToken
    /\ newStartPageToken = NoToken
    /\ c0 = NoToken
    /\ tickStart = NoToken
    /\ saves = 0
    /\ lastPull = NoPull
    /\ lastError = "none"
    /\ lost = {}
    /\ binds = 0
    /\ plog = "none"
    /\ intervalArg = NoArg
    /\ slept = NoSleep
    /\ StoreAtRest
    /\ MdAtRest

NextPoll ==
    \/ Main
    \/ TickStart
    \/ ListPage
    \/ ProcessChange
    \/ EndPage
    \/ PollCallFails
    \/ Wake
    \/ Crash
    \/ RunPoller
    \/ \E d \in Docs : FeedEdit(d, "t1")
    \/ FeedRemove("d1")
    \/ \E n \in NoteIds : BindNoteScript(n, "d1", "t1")

SpecPoll == InitPoll /\ [][NextPoll]_vars

(***************************************************************************)
(* Properties of the change poller (checked under SpecPoll)                *)
(***************************************************************************)
\* the step that processes the change at the head of the page
ChangeStep == ppc = "changes" /\ ppc' = "changes" /\ page # <<>> /\ page' = Tail(page)
\* the step that pulls a document for the change at the head of the page
PullStep == ChangeStep /\ lastPull'.note # "none"
\* the step in which a remote call of the running tick fails, or the process is killed
FailStep == lastError = "none" /\ lastError' # "none"

\* C6 (as claimed): a removed change of a bound file sets accessLost on the
\* note's binding and writes no shadow file, and no later change makes the
\* poller pull a note that is marked lost and has not been bound again.
RemovalPropagation ==
    [][/\ (ChangeStep /\ Head(page).removed
             /\ findNoteIdByFileId(notes, Head(page).fileId) # "null")
          => /\ getBinding(notes', findNoteIdByFileId(notes, Head(page).fileId)).accessLost
             /\ shadow' = shadow
       /\ PullStep => lastPull'.note \notin lost]_vars

\* C7: the first run, with no stored cursor, stores the feed's current start
\* token and in that step lists nothing, pulls nothing, writes no shadow file
\* and no binding; afterwards every pull is for a change at or after that token.
InitStoresStartOnly ==
    [][/\ (ppc = "main" /\ stToken = NoToken /\ ppc' # "main")
          => /\ stToken' = Len(feed) + 1
             /\ UNCHANGED <<shadow, notes, page, pagePos, lastPull>>
             /\ lastPull = NoPull
       /\ PullStep => (c0 # NoToken /\ lastPull'.pos >= c0)]_vars

\* C7 witness: the cursor was initialised after changes had been reported,
\* and a later tick pulled a note
PullAfterInit == c0 > 1 /\ lastPull.note # "none" /\ lastPull.pos >= c0

\* C8 (as claimed): for a non-removed change, every note bound to the changed
\* file gets the one pull of that step, and its lastKnownRevisionId becomes
\* the revision of the document fetched for it.
ChangePullsOnce ==
    [][(ChangeStep /\ ~Head(page).removed)
          => \A i \in 1..Len(notes) :
                notes[i].fileId = Head(page).fileId
                   => /\ lastPull' = [note |-> notes[i].noteId,
                                      rev |-> docs[Head(page).fileId].rev,
                                      pos |-> pagePos]
                      /\ shadow'[notes[i].noteId] # NoFile
                      /\ getBinding(notes', notes[i].noteId).lastKnownRevisionId
                            = docs[Head(page).fileId].rev]_vars

\* C9: while a tick runs the stored cursor is the one the tick began with;
\* saveState is called only at the end of the page without continuation,
\* once, as the tick's last step; a tick that returns has called it once; a
\* failed or killed tick leaves the cursor as the tick found it, and the next
\* tick starts from the stored cursor.
CursorSavedOncePerTick ==
    [][/\ ppc \in {"list", "changes"} => (stToken = tickStart /\ saves = 0)
       /\ (ppc # "main" /\ (stToken' # stToken \/ saves' # saves) /\ ppc # "tick")
          => /\ ppc = "changes" /\ page = <<>> /\ nextPageToken = NoToken
             /\ ppc' \in {"sleep", "exited"}
             /\ saves' = 1
       /\ (ppc = "changes" /\ ppc' \in {"sleep", "exited"} /\ ~FailStep) => saves' = 1
       /\ (ppc = "changes" /\ page = <<>> /\ nextPageToken # NoToken /\ ~FailStep)
          => (stToken' = stToken /\ saves' = 0 /\ ppc' \in {"changes", "list"})
       /\ FailStep => stToken' = tickStart
       /\ (ppc = "tick" /\ ppc' = "list") => pageToken' = stToken]_vars

\* C9 witness: a tick of more than one page has returned and saved the cursor
TwoPageTickSaved ==
    ppc \in {"sleep", "exited"} /\ saves = 1 /\ stToken > tickStart + PageSize

\* C10: in watch mode a failed changes.list or documents.get leaves the
\* stored cursor as the tick found it and puts the loop to sleep; from sleep
\* the loop only wakes into a tick, and a tick starts from the stored cursor.
PollErrorKeepsLoop ==
    [][/\ (watch /\ FailStep /\ lastError' \in {"list", "get"})
          => /\ ppc' = "sleep"
             /\ stToken' = stToken
             /\ stToken' = tickStart
       /\ ppc = "sleep" => ppc' \in {"sleep", "tick"}
       /\ (ppc = "tick" /\ stToken # NoToken) => (ppc' \in {"tick", "list"})
       /\ (ppc = "tick" /\ ppc' = "list") => pageToken' = stToken]_vars

\* C10 witness: in watch mode a documents.get failed after an earlier change
\* of the tick was pulled, and the loop sleeps
PollErrorSlept ==
    watch /\ ppc = "sleep" /\ lastError = "get" /\ stToken = tickStart
      /\ \E n \in NoteIds : shadow[n] # NoFile

(***************************************************************************)
(* Binding store shared by processes (SpecStore)                           *)
(***************************************************************************)
NotebookStores == { <<>>, <<[notebookId |-> "nb1", fileId |-> "d2"]>> }

InitStore ==
    /\ docs = [d \in Docs |-> [rev |-> 1, tabs |-> [t \in {"t1"} |-> EmptyBody]]]
    /\ PusherAtRest
    /\ PollerAtRest
    /\ \/ form = "namespaced" /\ notes \in InitStores \cup {<<>>} /\ notebooks \in NotebookStores
       \/ form = "flat" /\ notes \in InitStores /\ notebooks = <<>>
       \/ form = "missing" /\ notes = <<>> /\ notebooks = <<>>
    /\ mem = [p \in Procs |-> EmptyStore]
    /\ spc = [p \in Procs |-> "idle"]
    /\ sop = [p \in Procs |-> NoOp]
    /\ ret = [p \in Procs |-> Pending]
    /\ expect = [notes |-> notes, notebooks |-> notebooks]
    /\ ran = {}
    /\ nops = 0
    /\ MdAtRest

NextStore ==
    \/ \E p \in Procs, op \in StoreOps : StoreLoad(p, op)
    \/ \E p \in Procs : StoreReturn(p)

SpecStore == InitStore /\ [][NextStore]_vars

(***************************************************************************)
(* Properties of the binding store (checked under SpecStore)               *)
(***************************************************************************)
\* the step in which process p returns from its store operation
StoreReturns(p) == spc[p] = "loaded" /\ spc'[p] = "idle"

\* C11: as long as a single process has called store operations, the file
\* holds exactly what the completed operations, run one after the other,
\* leave: no update is lost.  (With two processes an update can be lost:
\* LostUpdate is reachable.)
SingleProcessNoLostUpdate ==
    Cardinality(ran) <= 1 => [notes |-> notes, notebooks |-> notebooks] = expect

\* C11 witness: two processes interleaved their operations, both have
\* returned, and the record of a note in the file is not the one the
\* completed operations should have left: the later writer wrote back the
\* copy it had loaded before the other's write.
LostUpdate ==
    /\ ran = Procs
    /\ \A p \in Procs : spc[p] = "idle" /\ sop[p].kind # "getBinding"
    /\ \E n \in NoteIds : getBinding(notes, n) # getBinding(expect.notes, n)

\* C12: bindNote returns with the note's record holding every given field
\* with the given value and every other field as it was in the loaded map (a
\* new record has no other field set); the records of the other notes, their
\* order and the notebook bindings are those of the loaded map, and the
\* record is the returned value.
BindNoteMerges ==
    [][\A p \in Procs :
          (StoreReturns(p) /\ sop[p].kind = "bindNote")
             => LET n == sop[p].noteId
                    b == sop[p].binding
                    old == getBinding(mem[p].notes, n)
                    rec == getBinding(notes', n)
                IN  /\ rec.noteId = n
                    /\ \A k \in DOMAIN b : rec[k] = b[k]
                    /\ \A k \in (DOMAIN Null \ DOMAIN b) \ {"noteId"} : rec[k] = old[k]
                    /\ \A m \in NoteIds \ {n} :
                          getBinding(notes', m) = getBinding(mem[p].notes, m)
                    /\ Len(notes') = Len(mem[p].notes) + (IF old = Null THEN 1 ELSE 0)
                    /\ notebooks' = mem[p].notebooks
                    /\ ret'[p] = rec]_vars

\* C12 witness: bindNote with only a tabId has returned for a note that was
\* bound: the record has the new tabId and kept its fileId and revision,
\* while another note and a notebook binding are in the store
BindNoteMerged ==
    \E p \in Procs :
        /\ spc[p] = "idle"
        /\ sop[p].kind = "bindNote"
        /\ sop[p].binding = [tabId |-> "t2"]
        /\ ret[p] = getBinding(notes, sop[p].noteId)
        /\ ret[p].tabId = "t2" /\ ret[p].fileId = "d1" /\ ret[p].lastKnownRevisionId = 1
        /\ Len(notes) = 2
        /\ notebooks # <<>>

\* C13: updateSyncCheckpoint, markAccessLost and getBinding called for a note
\* that has no record in the loaded map return null, and the file (its
\* records, its notebook bindings, its shape) is left as it is.
AbsentNoteNoOp ==
    [][\A p \in Procs :
          (/\ StoreReturns(p)
           /\ sop[p].kind \in {"updateSyncCheckpoint", "markAccessLost", "getBinding"}
           /\ getBinding(mem[p].notes, sop[p].noteId) = Null)
             => /\ ret'[p] = Null
                /\ UNCHANGED <<notes, notebooks, form>>]_vars

\* C13 witness: updateSyncCheckpoint or markAccessLost has returned null for
\* a note absent from a store that holds another note
AbsentNoteReturnedNull ==
    \E p \in Procs :
        /\ spc[p] = "idle"
        /\ sop[p].kind \in {"updateSyncCheckpoint", "markAccessLost"}
        /\ ret[p] = Null
        /\ getBinding(notes, sop[p].noteId) = Null
        /\ notes # <<>>
        /\ nops = 1

(***************************************************************************)
(* Error handling of the scripts                                           *)
(***************************************************************************)
\* the change at the head of the page is of a file bound to a note whose
\* binding has no tab, or whose tab is not in the fetched document
ChangeOfMissingTab ==
    /\ ChangeStep
    /\ ~Head(page).removed
    /\ findNoteIdByFileId(notes, Head(page).fileId) # "null"
    /\ LET binding == getBinding(notes, findNoteIdByFileId(notes, Head(page).fileId))
       IN  binding.tabId = NoTabId \/ findTab(docs[Head(page).fileId], binding.tabId) = NoTab

\* pullPushByNote ends at its binding lookup, or a push script ends at its
\* tab lookup
NotFoundExit ==
    \/ pc \in {"idle", "done"} /\ script' = "pullPushByNote"
         /\ <<script, pNote, pText, exitCode>>' # <<script, pNote, pText, exitCode>>
         /\ getBinding(notes, pNote') = Null /\ pc' = "done"
    \/ pc = "get" /\ pc' = "done" /\ findTab(docs[pDoc], pTab) = NoTab /\ revisionId' # NoRev

\* C14 (as claimed): when the binding or the bound tab is absent, nothing is
\* written (remote documents, shadow files and bindings stay as they are),
\* the failure is reported (a push script ends with a non-zero exit code, the
\* poller prints a line for the change), and the poller goes on with the
\* remaining changes of the page.
NotFoundAbortsAndReports ==
    [][/\ NotFoundExit => (exitCode' > 0 /\ UNCHANGED <<docs, notes, shadow>>)
       /\ ChangeOfMissingTab
             => /\ UNCHANGED <<docs, notes, shadow>>
                /\ page' = Tail(page) /\ ppc' = "changes"
                /\ plog' # "none"]_vars

\* the part of C14 the scripts do satisfy: nothing is written, the push
\* scripts exit non-zero, the poller goes on with the page
NotFoundAborts ==
    [][/\ NotFoundExit => (exitCode' > 0 /\ UNCHANGED <<docs, notes, shadow>>)
       /\ ChangeOfMissingTab
             => /\ UNCHANGED <<docs, notes, shadow>>
                /\ page' = Tail(page) /\ ppc' = "changes"]_vars

\* C15 (as claimed): a push rejected for a stale revision ends with the
\* script's conflict exit code, no other push failure (invalid request,
\* network or permission error) ends with that code, and the script makes no
\* second batchUpdate after the rejection.
ConflictDistinctOutcome ==
    [][/\ (PushReturns /\ resp' = "revisionConflict") => exitCode' = PushFailedExit(script)
       /\ (PushReturns /\ resp' \in {"invalid", "error"}) => exitCode' # PushFailedExit(script)
       /\ (pc = "done" /\ resp = "revisionConflict") => pc' # "batchUpdate"]_vars

\* the part of C15 the scripts do satisfy: a rejected push is not retried
ConflictNotRetried ==
    [][/\ (PushReturns /\ resp' = "revisionConflict") => (pc' = "done" /\ docs' = docs)
       /\ (pc = "done" /\ resp = "revisionConflict") => pc' # "batchUpdate"]_vars

(***************************************************************************)
(* mdToDocs run on markdown files (SpecParse)                              *)
(***************************************************************************)
\* cap on the number of pieces a markdown file is made of
MaxMdTokens == 4
\* the pieces: a letter, a bold, an italic and an underscore-italic span,
\* heading markers, a fence delimiter, a line break
MdTokens ==
    { <<"a">>, <<"*", "*", "b", "*", "*">>, <<"*", "c", "*">>, <<"_", "d", "_">>,
      <<"#", " ">>, <<"#", "#", " ">>, <<BackTick, BackTick, BackTick>>, <<NL>> }
MdInputs == { Concat(ts) : ts \in UNION { [1..n -> MdTokens] : n \in 0..MaxMdTokens } }

\* the mapping when config/md-mapping.json cannot be read (no policy
\* enabled), and the mappings with the title or the subtitle policy enabled
MappingCfgs == [useTitle : BOOLEAN, subtitleItalic : BOOLEAN]

OthersAtRest ==
    /\ docs = [d \in Docs |-> [rev |-> 1, tabs |-> [t \in {"t1"} |-> EmptyBody]]]
    /\ notes = <<>>
    /\ PusherAtRest
    /\ PollerAtRest
    /\ StoreAtRest

\* the file of three lines: a heading, a blank line, a line with a bold span
TitleScenarioMd ==
    <<"#", " ", "T", NL, NL, "A", " ", "*", "*", "b", "*", "*", " ", "c">>

InitParse ==
    /\ OthersAtRest
    /\ md \in MdInputs \cup {TitleScenarioMd}
    /\ ir = <<>>
    /\ cfg \in MappingCfgs
    /\ mpc = "start"
    /\ mdLines = <<>>
    /\ lineNo = 0
    /\ inFence = FALSE
    /\ plain = <<>>
    /\ cursor = 0
    /\ paraRanges = <<>>
    /\ textRanges = <<>>

NextParse ==
    \/ ParseStart
    \/ ParseLine
    \/ ParseEnd

SpecParse == InitParse /\ [][NextParse]_vars

(***************************************************************************)
(* Properties of the mdToDocs parser (checked under SpecParse)             *)
(***************************************************************************)
\* the text of the buffer between two indexes of the script (from 0, end excluded)
Slice(text, start, end) == SubSeq(text, start + 1, end)

\* C17 (as claimed): when the loop over the lines is over, every paragraph
\* range and every text range lies inside the projected buffer:
\* 0 <= start <= end <= length of plain.
RangesWithinBuffer ==
    mpc = "done"
      => /\ \A k \in 1..Len(paraRanges) :
               /\ 0 <= paraRanges[k].start
               /\ paraRanges[k].start <= paraRanges[k].end
               /\ paraRanges[k].end <= Len(plain)
         /\ \A j \in 1..Len(textRanges) :
               /\ 0 <= textRanges[j].start
               /\ textRanges[j].start <= textRanges[j].end
               /\ textRanges[j].end <= Len(plain)

RECURSIVE SumOfBlocks(_)
SumOfBlocks(ranges) ==
    IF ranges = <<>> THEN 0
    ELSE (Head(ranges).end - Head(ranges).start + 1) + SumOfBlocks(Tail(ranges))

\* C18: after every emitted line the cursor is the length of the buffer,
\* the buffer length is the sum over the emitted blocks of text length + 1,
\* and the paragraph ranges follow each other in block order without
\* overlap, each covering a terminator-free text that is followed by its
\* terminator.
BufferLengthIsSumOfBlocks ==
    mpc \in {"parse", "done"}
      => /\ cursor = Len(plain)
         /\ Len(plain) = SumOfBlocks(paraRanges)
         /\ \A k \in 1..Len(paraRanges) :
               /\ paraRanges[k].start = IF k = 1 THEN 0 ELSE paraRanges[k - 1].end + 1
               /\ paraRanges[k].start <= paraRanges[k].end
               /\ paraRanges[k].end < Len(plain)
               /\ plain[paraRanges[k].end + 1] = NL
               /\ \A q \in (paraRanges[k].start + 1)..paraRanges[k].end : plain[q] # NL

\* C18 witness: a file of several lines, one of them with an emphasis span
\* and one empty, has been parsed
ParsedSeveralBlocks ==
    /\ mpc = "done"
    /\ Len(paraRanges) >= 3
    /\ textRanges # <<>>
    /\ \E k \in 1..Len(paraRanges) : paraRanges[k].start = paraRanges[k].end
    /\ \E k \in 1..Len(paraRanges) : paraRanges[k].start < paraRanges[k].end

\* C19 (as claimed): when the loop is over, every text range, read against
\* the projected buffer, holds the inner text of the span it was recorded for.
RangeCoversItsSpan ==
    mpc = "done"
      => \A j \in 1..Len(textRanges) :
            /\ 0 <= textRanges[j].start
            /\ textRanges[j].end <= Len(plain)
            /\ Slice(plain, textRanges[j].start, textRanges[j].end) = textRanges[j].inner

\* C20 (as claimed): a line read inside a fence is in the buffer as it was
\* in the file and has no text range, and no fence delimiter line is emitted.
FenceLinesVerbatim ==
    mpc \in {"parse", "done"}
      => /\ \A k \in 1..Len(paraRanges) :
               /\ ~fenceMatch(paraRanges[k].original)
               /\ paraRanges[k].style = "CODEBLOCK"
                    => Slice(plain, paraRanges[k].start, paraRanges[k].end)
                          = paraRanges[k].original
         /\ \A j \in 1..Len(textRanges) : ~textRanges[j].fenced

(***************************************************************************)
(* Serializer and parser in sequence (SpecRoundTrip)                       *)
(***************************************************************************)
\* cap on the number of text runs of a document
MaxIrRuns == 3
\* a run of a document: its kind, and the style of the paragraph it opens
\* ("cont" when it continues the paragraph of the run before it)
IrStyles == {"TITLE", "HEADING_2", "NORMAL_TEXT"}
IrItems == [kind : {"plain", "bold", "italic", "bolditalic"}, style : IrStyles \cup {"cont"}]
\* documents: the first run opens a paragraph, only the first paragraph can be the title
IrDocs ==
    { its \in UNION { [1..n -> IrItems] : n \in 1..MaxIrRuns } :
        /\ its[1].style # "cont"
        /\ \A j \in 2..Len(its) : its[j].style # "TITLE" }

\* the text run of an item; the last run of a paragraph ends with the terminator
IrRun(item, last) ==
    [text |-> <<(IF item.kind = "plain" THEN "a" ELSE IF item.kind = "bold" THEN "b"
                 ELSE IF item.kind = "italic" THEN "c" ELSE "d")>>
              \o (IF last THEN <<NL>> ELSE <<>>),
     bold |-> item.kind \in {"bold", "bolditalic"},
     italic |-> item.kind \in {"italic", "bolditalic"}]

\* number of leading items that continue a paragraph
RECURSIVE LeadCont(_)
LeadCont(its) ==
    IF its # <<>> /\ Head(its).style = "cont" THEN 1 + LeadCont(Tail(its)) ELSE 0

\* body.content of the document made of the items
RECURSIVE IrBody(_)
IrBody(its) ==
    IF its = <<>> THEN <<>>
    ELSE LET n == 1 + LeadCont(Tail(its))
         IN  <<Para(Head(its).style, [j \in 1..n |-> IrRun(its[j], j = n)])>>
             \o IrBody(Drop(its, n))

InitRoundTrip ==
    /\ OthersAtRest
    /\ \E its \in IrDocs : ir = IrBody(its) /\ md = MdOut(IrBody(its))
    /\ cfg \in MappingCfgs
    /\ mpc = "start"
    /\ mdLines = <<>>
    /\ lineNo = 0
    /\ inFence = FALSE
    /\ plain = <<>>
    /\ cursor = 0
    /\ paraRanges = <<>>
    /\ textRanges = <<>>

SpecRoundTrip == InitRoundTrip /\ [][NextParse]_vars

\* the characters of a text with their style flags
StyledChars(text, bold, italic) ==
    [q \in 1..Len(text) |-> [ch |-> text[q], bold |-> bold, italic |-> italic]]

\* a document as blocks: style, and the characters of the block's runs
\* without the paragraph terminator
IrBlocks(body) ==
    [k \in 1..Len(body) |->
        [style |-> body[k].style,
         chars |-> Concat([j \in 1..Len(body[k].runs) |->
                             StyledChars(StripNL(body[k].runs[j].text),
                                         body[k].runs[j].bold, body[k].runs[j].italic)])]]

\* the parser's result as blocks: the character at index q of the buffer is
\* bold (italic) when a bold (italic) text range covers q
Covered(q, bold) ==
    \E j \in 1..Len(textRanges) :
        /\ IF bold THEN textRanges[j].bold ELSE textRanges[j].italic
        /\ textRanges[j].start <= q /\ q < textRanges[j].end
ParsedBlocks ==
    [k \in 1..Len(paraRanges) |->
        [style |-> paraRanges[k].style,
         chars |-> [q \in 1..(paraRanges[k].end - paraRanges[k].start) |->
                      [ch |-> plain[paraRanges[k].start + q],
                       bold |-> Covered(paraRanges[k].start + q - 1, TRUE),
                       italic |-> Covered(paraRanges[k].start + q - 1, FALSE)]]]]

\* C16 (as claimed): a document serialized by the poller (runsToMarkdown and
\* the line assembly) and parsed back by mdToDocs gives the same blocks: the
\* same styles, the same text, the same bold and italic characters.
RoundTrip ==
    (mpc = "done" /\ ir # <<>>) => ParsedBlocks = IrBlocks(ir)

\* round trips that do succeed: a document of unstyled paragraphs under the
\* mapping without title policy
PlainRoundTrip ==
    (/\ mpc = "done" /\ ir # <<>> /\ ~cfg.useTitle
     /\ \A k \in 1..Len(ir) :
           /\ ir[k].style = "NORMAL_TEXT"
           /\ \A j \in 1..Len(ir[k].runs) : ~ir[k].runs[j].bold /\ ~ir[k].runs[j].italic)
       => ParsedBlocks = IrBlocks(ir)

\* the lines of the file that are fence delimiters
FenceLines == { i \in 1..Len(mdLines) : fenceMatch(mdLines[i]) }

\* C21 (as claimed): in a file with a single fence delimiter, every line
\* after it is emitted as a code block, is in the buffer as it was in the
\* file, and has no text range.
UnterminatedFenceIsCode ==
    (mpc = "done" /\ Cardinality(FenceLines) = 1)
      => LET f == CHOOSE i \in FenceLines : TRUE
         IN  /\ Len(paraRanges) = Len(mdLines) - 1
             /\ \A k \in f..Len(paraRanges) :
                   /\ paraRanges[k].original = mdLines[k + 1]
                   /\ paraRanges[k].style = "CODEBLOCK"
                   /\ Slice(plain, paraRanges[k].start, paraRanges[k].end) = mdLines[k + 1]
                   /\ \A j \in 1..Len(textRanges) : textRanges[j].para # k

\* the part of C21 the script does satisfy: when the loop over the lines is
\* over, every line after the single fence delimiter has been emitted as a
\* code block
UnterminatedFenceClassified ==
    (mpc = "parse" /\ lineNo > Len(mdLines) /\ Cardinality(FenceLines) = 1)
      => LET f == CHOOSE i \in FenceLines : TRUE
         IN  /\ Len(paraRanges) = Len(mdLines) - 1
             /\ \A k \in f..Len(paraRanges) :
                   /\ paraRanges[k].original = mdLines[k + 1]
                   /\ paraRanges[k].style = "CODEBLOCK"

\* the ranges as the script holds them, without the history fields
ParaRangesOut == [k \in 1..Len(paraRanges) |->
                    [start |-> paraRanges[k].start, end |-> paraRanges[k].end,
                     style |-> paraRanges[k].style]]
TextRangesOut == [j \in 1..Len(textRanges) |->
                    [start |-> textRanges[j].start, end |-> textRanges[j].end,
                     bold |-> textRanges[j].bold, italic |-> textRanges[j].italic]]

\* C22 (as claimed): the file '# T', blank line, 'A **b** c' parsed with
\* title promotion gives the buffer 'T', newline, 'A b c', newline (8
\* characters), the paragraph ranges {0,1,TITLE} and {2,7,NORMAL_TEXT}, and
\* the one bold range {4,5}.
TitleScenarioResult ==
    (mpc = "done" /\ md = TitleScenarioMd /\ cfg.useTitle)
      => /\ plain = <<"T", NL, "A", " ", "b", " ", "c", NL>>
         /\ ParaRangesOut = <<[start |-> 0, end |-> 1, style |-> "TITLE"],
                              [start |-> 2, end |-> 7, style |-> "NORMAL_TEXT"]>>
         /\ TextRangesOut = <<[start |-> 4, end |-> 5, bold |-> TRUE, italic |-> FALSE]>>

\* what the script gives for that file: the blank line is a paragraph of its own
TitleScenarioActual ==
    (mpc = "done" /\ md = TitleScenarioMd /\ cfg.useTitle)
      => /\ plain = <<"T", NL, NL, "A", " ", "b", " ", "c", NL>>
         /\ ParaRangesOut = <<[start |-> 0, end |-> 1, style |-> "TITLE"],
                              [start |-> 2, end |-> 2, style |-> "NORMAL_TEXT"],
                              [start |-> 3, end |-> 8, style |-> "NORMAL_TEXT"]>>
         /\ TextRangesOut = <<[start |-> 5, end |-> 6, bold |-> TRUE, italic |-> FALSE]>>

(***************************************************************************)
(* The watch loop run with an --interval argument (SpecWatch)              *)
(***************************************************************************)
\* texts given after "--interval="
IntervalArgs ==
    { <<"0">>, <<"-", "3">>, <<"7">>, <<"3", "x">>, <<"a", "b", "c">>, <<>>,
      <<"3", "0", "0", "0", "0", "0", "0">> }

InitWatch ==
    /\ docs = [d \in Docs |->
                 IF d = "d1"
                 THEN [rev |-> 1, tabs |-> [t \in {"t1", "t2"} |->
                          IF t = "t1" THEN EmptyBody ELSE PlainBody(<<"b", NL>>)]]
                 ELSE [rev |-> 1, tabs |-> [t \in {"t1"} |-> EmptyBody]]]
    /\ notes = <<Binding("n1", "d1", "t1", 1), Binding("n2", "d1", "t2", 1)>>
    /\ PusherAtRest
    /\ feed = <<>>
    /\ stToken = NoToken
    /\ shadow = [n \in NoteIds |-> NoFile]
    /\ watch = TRUE
    /\ ppc = "main"
    /\ pageToken = NoToken
    /\ page = <<>>
    /\ pagePos = 0
    /\ nextPageToken = NoToken
    /\ newStartPageToken = NoToken
    /\ c0 = NoToken
    /\ tickStart = NoToken
    /\ saves = 0
    /\ lastPull = NoPull
    /\ lastError = "none"
    /\ lost = {}
    /\ binds = 0
    /\ plog = "none"
    /\ intervalArg \in IntervalArgs \cup {NoArg}
    /\ slept = NoSleep
    /\ StoreAtRest
    /\ MdAtRest

SpecWatch == InitWatch /\ [][NextPoll]_vars

\* the minimum interval, in ms
FloorMs == 5000

\* C23 (as claimed): whatever the --interval argument is, the timer of every
\* sleep between two ticks of the watch loop is set to at least 5 seconds.
SleepAtLeastFloor ==
    [][(ppc = "sleep" /\ ppc' = "tick") => slept' >= FloorMs]_vars

\* the part of C23 the script does satisfy: an argument that parseInt reads
\* as a number of at most 2147483 seconds (0 and negative values included),
\* or no argument, gives a sleep of at least 5 seconds
NumericIntervalFloored ==
    [][(/\ ppc = "sleep" /\ ppc' = "tick"
        /\ ~intervalSec.nan
        /\ ~Times(intervalSec, 1000).big) => slept' >= FloorMs]_vars

(***************************************************************************)
(* Re-processing of changes by the poller (checked under SpecPoll)         *)
(***************************************************************************)
\* the loop over data.changes run over a sequence of changes
RECURSIVE ProcessChanges(_, _, _)
ProcessChanges(ns, sh, changes) ==
    IF changes = <<>> THEN [notes |-> ns, shadow |-> sh]
    ELSE ProcessChanges(ChangeEffect(ns, sh, Head(changes)).notes,
                        ChangeEffect(ns, sh, Head(changes)).shadow, Tail(changes))

\* the changes a tick that starts now lists, page after page
PendingChanges == SubSeq(feed, stToken, Len(feed))

\* C24: at the start of every tick, with the remote documents and the feed
\* as they are now: a run of the tick that was cut after any number of the
\* pending changes, or that went through all of them, followed by a run over
\* all of them from the same cursor, leaves every binding (revision,
\* accessLost flag) and every shadow text as one run over all of them does;
\* and the cursor a run is about to save is the position after the last
\* change it listed, whatever the store and the shadow files hold.
ReprocessingIdempotent ==
    /\ (ppc = "tick" /\ stToken # NoToken)
         => LET once == ProcessChanges(notes, shadow, PendingChanges)
            IN  \A k \in 0..Len(PendingChanges) :
                   LET cut == ProcessChanges(notes, shadow, SubSeq(PendingChanges, 1, k))
                   IN  ProcessChanges(cut.notes, cut.shadow, PendingChanges) = once
    /\ (ppc = "changes" /\ nextPageToken = NoToken)
         => SavedToken(newStartPageToken, pageToken) = pagePos + Len(page)

\* C24 witness: a tick was cut by a failed documents.get or a kill after it
\* had pulled a note, and the next tick starts from the same cursor with an
\* edit and a removal among the changes to go through again
RerunAfterCutTick ==
    /\ ppc = "tick"
    /\ stToken # NoToken
    /\ stToken = tickStart
    /\ lastError \in {"get", "killed"}
    /\ \E n \in NoteIds : shadow[n] # NoFile
    /\ \E i, j \in 1..Len(PendingChanges) :
          PendingChanges[i].removed /\ ~PendingChanges[j].removed

\* the step of the promotion pass
PromotionStep == mpc = "parse" /\ mpc' = "done"
ParsedStyles == {"HEADING_1", "HEADING_2", "HEADING_3", "NORMAL_TEXT", "CODEBLOCK"}

PushReplacesWholeTab ==
    [][(PushReturns /\ resp' = "ok")
         => LET old == getTabText(docs[pDoc].tabs[pTab])
            IN  /\ requests = <<[op |-> "deleteContentRange", startIndex |-> 1,
                                 endIndex |-> Len(old)],
                                [op |-> "insertText", index |-> 1, text |-> pText]>>
                /\ old[Len(old)] = NL
                /\ getTabText(docs'[pDoc].tabs[pTab]) = pText \o <<NL>>
                /\ \A d \in Docs : \A t \in DOMAIN docs[d].tabs :
                      <<d, t>> # <<pDoc, pTab>> => docs'[d].tabs[t] = docs[d].tabs[t]]_vars

\* C26 witness: a push over a tab that held two characters or more has
\* succeeded, and the tab holds the local text, which is another text
TabContentReplaced ==
    /\ pc = "done"
    /\ resp = "ok"
    /\ Len(requests) = 2
    /\ requests[1].endIndex > 2
    /\ requests[1].endIndex - 1 # Len(pText)
    /\ getTabText(docs[pDoc].tabs[pTab]) = pText \o <<NL>>

\* C27 (as claimed): every deleteContentRange request the script has built
\* has startIndex < endIndex, and for a tab whose body is only the final
\* terminator the request list holds no delete request.
DeleteRangesNonEmpty ==
    pc = "batchUpdate"
      => /\ \A i \in 1..Len(requests) :
               requests[i].op = "deleteContentRange"
                  => requests[i].startIndex < requests[i].endIndex
         /\ (docs[pDoc].rev = revisionId /\ findTab(docs[pDoc], pTab) = EmptyBody)
               => \A i \in 1..Len(requests) : requests[i].op # "deleteContentRange"

\* what the scripts do build: the delete request is left out only when the
\* last endIndex is 1 or absent, which no body has; for every body with
\* content before the final terminator the range is not empty
DeleteRangeNonEmptyForContent ==
    (pc = "batchUpdate" /\ docs[pDoc].rev = revisionId
       /\ findTab(docs[pDoc], pTab) # EmptyBody)
      => /\ Len(requests) = 2
         /\ requests[1].op = "deleteContentRange"
         /\ requests[1].startIndex < requests[1].endIndex

(***************************************************************************)
(* Several notes bound to one document (checked under SpecPoll)            *)
(***************************************************************************)
\* note i of the store is bound to a tab that the changed document has
BoundToTabOf(i, fileId) ==
    /\ notes[i].fileId = fileId
    /\ notes[i].tabId # NoTabId
    /\ findTab(docs[fileId], notes[i].tabId) # NoTab

\* C28 (as claimed): a non-removed change of a document refreshes every note
\* bound to a tab of that document: its shadow file becomes the markdown of
\* its own tab and its lastKnownRevisionId the revision of the fetched
\* document.
AllNotesOfDocumentRefreshed ==
    [][(ChangeStep /\ ~Head(page).removed)
         => \A i \in 1..Len(notes) :
               BoundToTabOf(i, Head(page).fileId)
                  => /\ shadow'[notes[i].noteId]
                          = MdOut(findTab(docs[Head(page).fileId], notes[i].tabId))
                     /\ getBinding(notes', notes[i].noteId).lastKnownRevisionId
                          = docs[Head(page).fileId].rev]_vars

\* what the poller does: the first note, in key order, bound to the document
\* is refreshed from its own tab
FirstNoteOfDocumentRefreshed ==
    [][(ChangeStep /\ ~Head(page).removed)
         => \A i \in 1..Len(notes) :
               (/\ BoundToTabOf(i, Head(page).fileId)
                /\ \A j \in 1..(i - 1) : notes[j].fileId # Head(page).fileId)
                  => /\ shadow'[notes[i].noteId]
                          = MdOut(findTab(docs[Head(page).fileId], notes[i].tabId))
                     /\ getBinding(notes', notes[i].noteId).lastKnownRevisionId
                          = docs[Head(page).fileId].rev]_vars

(***************************************************************************)
(* Re-binding of a note (checked under SpecStore)                          *)
(***************************************************************************)
\* process p returns from a bindNote that gives a note that has a record
\* another document or another tab
RebindStep(p) ==
    /\ StoreReturns(p)
    /\ sop[p].kind = "bindNote"
    /\ getBinding(mem[p].notes, sop[p].noteId) # Null
    /\ \E k \in DOMAIN sop[p].binding \cap {"fileId", "tabId"} :
          sop[p].binding[k] # getBinding(mem[p].notes, sop[p].noteId)[k]

\* C29 (as claimed): after bindNote has bound an existing note to another
\* document or tab, the note's record has no lastKnownRevisionId and no
\* accessLost flag left from the unit it was bound to.
RebindClearsCheckpoint ==
    [][\A p \in Procs :
          RebindStep(p)
             => /\ getBinding(notes', sop[p].noteId).lastKnownRevisionId = NoRev
                /\ ~getBinding(notes', sop[p].noteId).accessLost]_vars

\* what bindNote does: the revision and the flag of the loaded record are kept
RebindKeepsCheckpoint ==
    [][\A p \in Procs :
          RebindStep(p)
             => /\ getBinding(notes', sop[p].noteId).lastKnownRevisionId
                     = getBinding(mem[p].notes, sop[p].noteId).lastKnownRevisionId
                /\ getBinding(notes', sop[p].noteId).accessLost
                     = getBinding(mem[p].notes, sop[p].noteId).accessLost]_vars

(***************************************************************************)
(* Scripts that look the tab up among the top-level tabs (SpecReplace)     *)
(***************************************************************************)
\* the tab tree of the documents: in d1 tab t2 is a child tab of t1; every
\* other tab is a top-level tab
ChildTabs(d, t) == IF d = "d1" /\ t = "t1" THEN {"t2"} ELSE {}
TopLevelTabs(d) == { t \in DOMAIN docs[d].tabs : \A u \in DOMAIN docs[d].tabs : t \notin ChildTabs(d, u) }

\* meta.data.tabs?.find(t => t.tabProperties?.tabId === tabId)?.documentTab?.body:
\* the body of the top-level tab with that id, nothing when there is none
findTopLevelTab(d, tabId) ==
    IF tabId \in TopLevelTabs(d) THEN docs[d].tabs[tabId] ELSE NoTab

FormatScripts == {"mdToDocs", "formatExplicit"}

\* mdToDocs or formatExplicit starts: arguments read, text of the file
\* (mdToDocs: the projected buffer) ready
StartFormat(sc, doc, tab, text) ==
    /\ pc \in {"idle", "done"}
    /\ \A d \in Docs : docs[d].rev < MaxRev
    /\ script' = sc
    /\ pNote' = "none"
    /\ pDoc' = doc
    /\ pTab' = tab
    /\ pText' = text
    /\ revisionId' = NoRev
    /\ requests' = <<>>
    /\ resp' = "none"
    /\ pushedRev' = NoRev
    /\ pc' = "getTop"
    /\ exitCode' = -1
    /\ UNCHANGED <<docs, notes, lastPush, pollVars, libVars>>

\* documents.get, the tab looked up among the top-level tabs, endIndex
\* (1 when no body was found) and the request list
GetTop ==
    /\ pc = "getTop"
    /\ revisionId' = docs[pDoc].rev
    /\ requests' = BuildRequests(findTopLevelTab(pDoc, pTab), pText)
    /\ pc' = "batchTop"
    /\ UNCHANGED <<docs, notes, script, pNote, pDoc, pTab, pText, exitCode, resp, pushedRev,
                   lastPush, pollVars, libVars>>

\* documents.batchUpdate answered by the service, which finds the tab of the
\* requests at any depth; a refused batch is an uncaught rejection (exit 1)
BatchTop ==
    /\ pc = "batchTop"
    /\ resp' = BatchAnswer(docs[pDoc], pTab, requests, revisionId)
    /\ docs' = [docs EXCEPT ![pDoc] = BatchResult(docs[pDoc], pTab, requests, revisionId)]
    /\ IF resp' = "ok"
       THEN /\ pushedRev' = docs'[pDoc].rev
            /\ lastPush' = [doc |-> pDoc, tab |-> pTab, text |-> pText]
            /\ Finish(0)
       ELSE /\ Finish(1)
            /\ UNCHANGED <<pushedRev, lastPush>>
    /\ UNCHANGED <<notes, script, pNote, pDoc, pTab, pText, revisionId, requests, pollVars, libVars>>

NextReplace ==
    \/ NextPush
    \/ \E sc \in FormatScripts, tab \in TabIds, text \in Texts : StartFormat(sc, "d1", tab, text)
    \/ GetTop
    \/ BatchTop

SpecReplace == InitPush /\ [][NextReplace]_vars

\* the script is about to send its batch, or the batch is answered
AtBatch == pc \in {"batchUpdate", "batchTop"}
BatchReturns == AtBatch /\ pc' \notin {"batchUpdate", "batchTop"}

\* C30 (as claimed): whichever script replaces the content, a target tab
\* that the document has, at any depth, is found: when it holds content the
\* request list starts with the delete of that content, and a batch that is
\* applied leaves the tab with the local text followed by the final
\* terminator.
TabFoundAtAnyDepth ==
    [][/\ (AtBatch /\ docs[pDoc].rev = revisionId /\ pTab \in DOMAIN docs[pDoc].tabs
             /\ docs[pDoc].tabs[pTab] # EmptyBody)
          => /\ requests[1].op = "deleteContentRange"
             /\ requests[1].endIndex = Len(getTabText(docs[pDoc].tabs[pTab]))
       /\ (BatchReturns /\ resp' = "ok")
          => getTabText(docs'[pDoc].tabs[pTab]) = pText \o <<NL>>]_vars

\* the part of C30 that holds: the scripts that walk the tab tree
\* (pullPush, pullPushByNote, replaceTabBody) find a child tab and replace
\* its content
TreeWalkFindsChildTab ==
    [][/\ (pc = "batchUpdate" /\ docs[pDoc].rev = revisionId /\ pTab \in DOMAIN docs[pDoc].tabs
             /\ docs[pDoc].tabs[pTab] # EmptyBody)
          => /\ requests[1].op = "deleteContentRange"
             /\ requests[1].endIndex = Len(getTabText(docs[pDoc].tabs[pTab]))
       /\ (pc = "batchUpdate" /\ pc' # "batchUpdate" /\ resp' = "ok")
          => getTabText(docs'[pDoc].tabs[pTab]) = pText \o <<NL>>]_vars

====
